---- MODULE Spec2Model ----
(***************************************************************************)
(* The .dump command (internal/shellcmd/dump.go) and the statement-result  *)
(* printer with its value formatter (src/lib/output.go) of libsql-shell-go *)
(* as one state machine, with three entry points: a run of the command, a  *)
(* call of PrintStatementsResult, and a call of formatValue.               *)
(*                                                                         *)
(* Go strings are sequences of one-character strings, so that quoting,     *)
(* escaping, joining and hex/base64 conversion are computed character by   *)
(* character.  Go channels are records [isNil, q]: q holds the elements    *)
(* the producer delivers before it closes the channel.  An error value is  *)
(* a tuple of strings; the nil error is the empty tuple.                   *)
(***************************************************************************)
EXTENDS Integers, Sequences, FiniteSets, TLC

(* ------------------------------ bounds -------------------------------- *)
MaxTables == 2
MaxRows == 2
MaxStatements == 2
MaxBase64Len == 4
MaxBytes == 2

(* ------------------------- strings and errors ------------------------- *)
NilErr == <<>>

RECURSIVE Concat(_)
Concat(ss) == IF ss = <<>> THEN <<>> ELSE Head(ss) \o Concat(Tail(ss))

Contains(s, c) == \E i \in 1..Len(s) : s[i] = c

Digits == <<"0", "1", "2", "3", "4", "5", "6", "7", "8", "9">>

RECURSIVE NatToStr(_)
NatToStr(n) == IF n < 10 THEN <<Digits[n + 1]>>
               ELSE NatToStr(n \div 10) \o <<Digits[(n % 10) + 1]>>

IntToStr(n) == IF n < 0 THEN <<"-">> \o NatToStr(0 - n) ELSE NatToStr(n)

(* strings.Join *)
RECURSIVE Join(_, _)
Join(ss, sep) == IF ss = <<>> THEN <<>>
                 ELSE IF Len(ss) = 1 THEN ss[1]
                 ELSE ss[1] \o sep \o Join(Tail(ss), sep)

(* ------------------------------- values ------------------------------- *)
(* A driver value as reflection sees it.  k: reflect.Kind ("nil" for the   *)
(* nil interface); t: the type name of a struct; has/valid: whether the    *)
(* struct has a field Valid and its value; pk: the kind of the payload     *)
(* field the type name selects ("invalid" when the struct has no such      *)
(* field); b, n, s: a bool, integer or string datum (of the value, or of   *)
(* the payload of a struct; for a map, s is its "base64" string); half:    *)
(* a float is n + half/2; ek: the element kind of a slice; bytes: the      *)
(* elements of a byte slice; mk: the kind of the map's "base64" entry      *)
(* ("absent", "string", "iface_string" or another kind).                   *)
Val(k, t, has, valid, pk, b, n, half, s, ek, bytes, mk) ==
    [k |-> k, t |-> t, has |-> has, valid |-> valid, pk |-> pk, b |-> b,
     n |-> n, half |-> half, s |-> s, ek |-> ek, bytes |-> bytes, mk |-> mk]

VNil == Val("nil", "", FALSE, FALSE, "", FALSE, 0, 0, <<>>, "", <<>>, "")
VString(s) == Val("string", "", FALSE, FALSE, "", FALSE, 0, 0, s, "", <<>>, "")
VInt(kind, n) == Val(kind, "", FALSE, FALSE, "", FALSE, n, 0, <<>>, "", <<>>, "")
VBool(b) == Val("bool", "", FALSE, FALSE, "", b, 0, 0, <<>>, "", <<>>, "")
VFloat(kind, n, half) ==
    Val(kind, "", FALSE, FALSE, "", FALSE, n, half, <<>>, "", <<>>, "")
VOther(kind) == Val(kind, "", FALSE, FALSE, "", FALSE, 0, 0, <<>>, "", <<>>, "")
VStruct(t, has, valid, pk, b, n, s) ==
    Val("struct", t, has, valid, pk, b, n, 0, s, "", <<>>, "")
VSlice(ek, bytes) ==
    Val("slice", "", FALSE, FALSE, "", FALSE, 0, 0, <<>>, ek, bytes, "")
VMap(mk, s) == Val("map", "", FALSE, FALSE, "", FALSE, 0, 0, s, "", <<>>, mk)

(* The result of a formatting function: the string and the error. *)
Ok(s) == [s |-> s, err |-> NilErr]
Fail(e) == [s |-> <<>>, err |-> e]

IntKinds == {"int", "int8", "int16", "int32", "int64",
             "uint", "uint8", "uint16", "uint32", "uint64"}
FloatKinds == {"float32", "float64"}

(* strconv.FormatFloat(f, 'f', -1, 64) of the float n + half/2, n >= 0 *)
FormatFloat(n, half) ==
    IF half = 0 THEN NatToStr(n) ELSE NatToStr(n) \o <<".", "5">>

(* formatRawTypes on a datum of kind k *)
formatRawTypes(k, b, n, half, s) ==
    IF k = "bool" THEN Ok(IF b THEN <<"t", "r", "u", "e">>
                               ELSE <<"f", "a", "l", "s", "e">>)
    ELSE IF k \in IntKinds THEN Ok(IntToStr(n))
    ELSE IF k = "string" THEN Ok(s)
    ELSE IF k \in FloatKinds THEN Ok(FormatFloat(n, half))
    ELSE Fail(<<"unsupported raw type", k>>)

NullTypes == {"NullBool", "NullFloat64", "NullByte", "NullInt16",
              "NullInt32", "NullInt64", "NullString"}

(* formatStruct unwrapping the payload before it looks at the flag *)
formatStruct_PayloadFirst(v) ==
    IF ~v.has THEN Fail(<<"unsupported struct type, missing Valid field", v.t>>)
    ELSE LET r == IF v.t \in NullTypes
                  THEN formatRawTypes(v.pk, v.b, v.n, v.half, v.s)
                  ELSE IF v.t = "NullTime" THEN Ok(v.s)
                  ELSE Fail(<<"unsupported struct type", v.t>>)
         IN  IF r.err # NilErr THEN r
             ELSE IF ~v.valid THEN Ok(<<"N", "U", "L", "L">>)
             ELSE r

(* The timestamp of a NullTime is carried in s, already in the layout      *)
(* "2006-01-02 15:04:05".                                                  *)
formatStruct(v) ==
    IF ~v.has THEN Fail(<<"unsupported struct type, missing Valid field", v.t>>)
    ELSE IF ~v.valid THEN Ok(<<"N", "U", "L", "L">>)
    ELSE IF v.t \in NullTypes THEN formatRawTypes(v.pk, v.b, v.n, v.half, v.s)
    ELSE IF v.t = "NullTime" THEN Ok(v.s)
    ELSE Fail(<<"unsupported struct type", v.t>>)

HexDigits == <<"0", "1", "2", "3", "4", "5", "6", "7",
               "8", "9", "A", "B", "C", "D", "E", "F">>

RECURSIVE HexPairs(_)
HexPairs(bytes) ==
    IF bytes = <<>> THEN <<>>
    ELSE <<HexDigits[(Head(bytes) \div 16) + 1], HexDigits[(Head(bytes) % 16) + 1]>>
         \o HexPairs(Tail(bytes))

(* fmt.Sprintf("0x%X", bytes) *)
formatBytes(bytes) == <<"0", "x">> \o HexPairs(bytes)

formatSlice(v) ==
    IF v.ek = "uint8" THEN Ok(formatBytes(v.bytes))
    ELSE Fail(<<"unsupported slice">>)

(* ------------------------------- base64 ------------------------------- *)
B64Alphabet ==
    <<"A", "B", "C", "D", "E", "F", "G", "H", "I", "J", "K", "L", "M",
      "N", "O", "P", "Q", "R", "S", "T", "U", "V", "W", "X", "Y", "Z",
      "a", "b", "c", "d", "e", "f", "g", "h", "i", "j", "k", "l", "m",
      "n", "o", "p", "q", "r", "s", "t", "u", "v", "w", "x", "y", "z",
      "0", "1", "2", "3", "4", "5", "6", "7", "8", "9", "+", "/">>

B64Index(c) == CHOOSE i \in 1..Len(B64Alphabet) : B64Alphabet[i] = c

IsB64Char(c) == \E i \in 1..Len(B64Alphabet) : B64Alphabet[i] = c

(* The decoder skips carriage returns and line feeds. *)
RECURSIVE StripNewlines(_)
StripNewlines(s) ==
    IF s = <<>> THEN <<>>
    ELSE IF Head(s) \in {"\n", "\r"} THEN StripNewlines(Tail(s))
    ELSE <<Head(s)>> \o StripNewlines(Tail(s))

(* The bytes of a sequence of 6-bit digits d (each 0..63), whose length is *)
(* not 1 modulo 4; the bits left over in a final group of 2 or 3 digits    *)
(* are dropped.                                                            *)
RECURSIVE DecodeQuanta(_)
DecodeQuanta(d) ==
    IF Len(d) = 0 THEN <<>>
    ELSE IF Len(d) = 2 THEN <<(d[1] * 64 + d[2]) \div 16>>
    ELSE IF Len(d) = 3
         THEN LET w == ((d[1] * 64 + d[2]) * 64 + d[3]) \div 4
              IN  <<w \div 256, w % 256>>
    ELSE LET w == ((d[1] * 64 + d[2]) * 64 + d[3]) * 64 + d[4]
         IN  <<w \div 65536, (w \div 256) % 256, w % 256>>
             \o DecodeQuanta(SubSeq(d, 5, Len(d)))

Zeros(n) == [i \in 1..n |-> 0]

(* encodingWithNoPadding.DecodedLen *)
DecodedLen(n) == (n * 6) \div 8

(* decodeBase64ToHex: the destination buffer has DecodedLen(len(s)) zero   *)
(* bytes, Decode fills a prefix of it, and the whole buffer is formatted.  *)
decodeBase64ToHex(s) ==
    LET in == StripNewlines(s)
        corrupt == (\E i \in 1..Len(in) : ~IsB64Char(in[i])) \/ Len(in) % 4 = 1
        decoded == DecodeQuanta([i \in 1..Len(in) |-> B64Index(in[i]) - 1])
    IN  IF corrupt THEN Fail(<<"unable to decode base64 value", "illegal base64 data">>)
        ELSE Ok(formatBytes(decoded \o Zeros(DecodedLen(Len(s)) - Len(decoded))))

(* A panic of the Go runtime inside a formatting function. *)
Panic(msg) == [s |-> <<>>, err |-> <<"panic", msg>>]
IsPanic(e) == e # NilErr /\ e[1] = "panic"

(* formatMap: MapIndex gives the invalid Value for an absent key, and      *)
(* IsZero panics on it; a present zero entry reads as a missing field.     *)
formatMap(v) ==
    IF v.mk = "absent" THEN Panic("reflect: call of reflect.Value.IsZero on zero Value")
    ELSE IF v.mk \in {"iface_nil", "other_zero"} \/ (v.mk = "string" /\ v.s = <<>>)
         THEN Fail(<<"unsupported map: no \"base64\" field">>)
    ELSE IF v.mk \in {"iface_string", "string"} THEN decodeBase64ToHex(v.s)
    ELSE Fail(<<"unsupported map. unsupported \"base64\" field kind">>)

formatValue(v) ==
    IF v.k = "nil" THEN Ok(<<"N", "U", "L", "L">>)
    ELSE IF v.k = "struct" THEN formatStruct(v)
    ELSE IF v.k = "slice" THEN formatSlice(v)
    ELSE IF v.k = "map" THEN formatMap(v)
    ELSE LET r == formatRawTypes(v.k, v.b, v.n, v.half, v.s)
         IN  IF r.err # NilErr THEN Fail(<<"unsupported type", v.k>>) ELSE r

(* formatData: the formatted row, or no row and the first error. *)
RECURSIVE formatDataFrom(_, _)
formatDataFrom(row, acc) ==
    IF row = <<>> THEN [row |-> acc, err |-> NilErr]
    ELSE LET r == formatValue(Head(row))
         IN  IF r.err # NilErr THEN [row |-> <<>>, err |-> r.err]
             ELSE formatDataFrom(Tail(row), Append(acc, r.s))

formatData(row) == formatDataFrom(row, <<>>)

(* ------------------------ identifier escaping ------------------------- *)
(* db.FormatData, db.NeedsEscaping and db.EscapeSingleQuotes are called by *)
(* dump.go from package internal/db.                                       *)
FormatData(row, mode) == formatData(row)

NeedsEscaping(s) == Contains(s, "'")

RECURSIVE EscapeSingleQuotes(_)
EscapeSingleQuotes(s) ==
    IF s = <<>> THEN <<>>
    ELSE IF Head(s) = "'" THEN <<"'", "'">> \o EscapeSingleQuotes(Tail(s))
    ELSE <<Head(s)>> \o EscapeSingleQuotes(Tail(s))

(* ------------------- channels and statement results ------------------- *)
NilCh == [isNil |-> TRUE, q |-> <<>>]
Chan(items) == [isNil |-> FALSE, q |-> items]

RowOk(row) == [Err |-> NilErr, Row |-> row]
RowErr(e) == [Err |-> e, Row |-> <<>>]

StmtOk(cols, rowCh) == [Err |-> NilErr, ColumnNames |-> cols, RowCh |-> rowCh]
StmtErr(e) == [Err |-> e, ColumnNames |-> <<>>, RowCh |-> NilCh]
(* The zero value, which a receive from a closed channel yields. *)
ZeroStmt == [Err |-> NilErr, ColumnNames |-> <<>>, RowCh |-> NilCh]
ZeroRow == [Err |-> NilErr, Row |-> <<>>]

(* The errors of the execution collaborator, one per level. *)
ExecError == <<"upstream", "exec">>
StatementError == <<"upstream", "statement">>
RowError == <<"upstream", "row">>

(* ---------------------- the database being dumped --------------------- *)
(* The execution collaborator (internal/db) answers the three queries of   *)
(* the dump from a small database; the nondeterminism is in the table-name *)
(* stream and in where a stream fails.                                     *)
NameA == <<"a">>
NameQ == <<"q", "'">>
NameC == <<"c">>
TableNames == {NameA, NameQ, NameC}

KindTable == <<"t", "a", "b", "l", "e">>
KindIndex == <<"i", "n", "d", "e", "x">>
KindTrigger == <<"t", "r", "i", "g", "g", "e", "r">>

(* A row of sqlite_master as the schema query selects it: type, sql || ';' *)
SchemaRow(kind, tag, name) ==
    RowOk(<<VString(kind), VString(<<tag>> \o name \o <<";">>)>>)

(* NameA has an index and a trigger; NameQ's index precedes its table row; *)
(* NameC has lost its table row (dropped after it was listed).             *)
SchemaOf(name) ==
    IF name = NameA
    THEN <<SchemaRow(KindTable, "T", name), SchemaRow(KindIndex, "I", name),
           SchemaRow(KindTrigger, "G", name)>>
    ELSE IF name = NameQ
    THEN <<SchemaRow(KindIndex, "I", name), SchemaRow(KindTable, "T", name)>>
    ELSE IF name = NameC THEN <<SchemaRow(KindIndex, "I", name)>>
    ELSE <<>>

RecordAt(i) ==
    RowOk(<<VInt("int64", i),
            IF i % 2 = 1 THEN VNil ELSE VString(<<"o", "'", "c">>)>>)

RecordsOf(name) ==
    IF name = NameA THEN [i \in 1..MaxRows |-> RecordAt(i)]
    ELSE IF name = NameQ THEN <<RecordAt(2)>>
    ELSE <<>>

(* The text of a SQL string literal whose body is x: doubled quotes read   *)
(* as one quote; a lone quote ends the literal early (a syntax error).     *)
RECURSIVE SqlLiteralOk(_)
SqlLiteralOk(x) ==
    IF x = <<>> THEN TRUE
    ELSE IF Head(x) # "'" THEN SqlLiteralOk(Tail(x))
    ELSE Len(x) >= 2 /\ x[2] = "'" /\ SqlLiteralOk(SubSeq(x, 3, Len(x)))

RECURSIVE SqlLiteralText(_)
SqlLiteralText(x) ==
    IF x = <<>> THEN <<>>
    ELSE IF Head(x) # "'" THEN <<Head(x)>> \o SqlLiteralText(Tail(x))
    ELSE <<"'">> \o SqlLiteralText(SubSeq(x, 3, Len(x)))

(* A value no formatter accepts. *)
BadValue == VOther("chan")

RECURSIVE SeqsUpTo(_, _)
SeqsUpTo(S, n) ==
    IF n = 0 THEN {<<>>}
    ELSE LET shorter == SeqsUpTo(S, n - 1)
         IN  shorter \cup {Append(s, x) : s \in {u \in shorter : Len(u) = n - 1}, x \in S}

(* The rows the producer of a stream has to deliver. *)
NameStreams ==
    {[i \in 1..Len(ns) |-> RowOk(<<VString(ns[i])>>)] : ns \in SeqsUpTo(TableNames, MaxTables)}

(* The failing elements a producer may deliver in place of its next row,   *)
(* keeping the rows it has left: a row error, a row with a value that does *)
(* not format, and for the schema query a row with one column.             *)
NameFaults == {RowErr(RowError), RowOk(<<BadValue>>)}
SchemaFaults == {RowErr(RowError), RowOk(<<BadValue, VString(<<";">>)>>),
                 RowOk(<<VString(KindIndex)>>)}
RecordFaults == {RowErr(RowError), RowOk(<<VInt("int64", 7), BadValue>>)}

NamesQuery == [q |-> "names", arg |-> <<>>]
SchemaQuery(arg) == [q |-> "schema", arg |-> arg]
RecordsQuery(arg) == [q |-> "records", arg |-> arg]

RowStreamsFor(query) ==
    IF query.q = "names" THEN NameStreams
    ELSE IF query.q = "schema" THEN {SchemaOf(SqlLiteralText(query.arg))}
    ELSE {RecordsOf(SqlLiteralText(query.arg))}

ColumnsFor(query) ==
    IF query.q = "names" THEN <<<<"n", "a", "m", "e">>>>
    ELSE IF query.q = "schema" THEN <<<<"t", "y", "p", "e">>, <<"s", "q", "l">>>>
    ELSE <<<<"i", "d">>, <<"n", "o", "t", "e">>>>

(* What ExecuteStatements may return for a query: an error; or a statement *)
(* stream that is nil, closed without an element, or delivers the one      *)
(* statement result: an error, or the columns with a row stream (nil, or   *)
(* with the rows of the query to deliver before it is closed).             *)
ExecuteStatements(query) ==
    LET fail == {[err |-> ExecError, ch |-> NilCh]}
        results == {StmtErr(StatementError), StmtOk(ColumnsFor(query), NilCh)}
                   \cup {StmtOk(ColumnsFor(query), Chan(s)) : s \in RowStreamsFor(query)}
        chans == {NilCh, Chan(<<>>)} \cup {Chan(<<sr>>) : sr \in results}
    IN  IF query.q # "names" /\ ~SqlLiteralOk(query.arg) THEN fail
        ELSE fail \cup {[err |-> NilErr, ch |-> c] : c \in chans}

(* ------------------------------- state -------------------------------- *)
VARIABLES
    prog,                (* the entry point: "dump", "print" or "format"      *)
    pc,                  (* the position of the running function              *)
    outF,                (* the output sink: the lines (tables) written       *)
    err,                 (* the error returned once pc = "done"               *)
    queries,             (* the queries given to ExecuteStatements, in order  *)
    configOk,            (* RunE: the context carries a *DbCmdConfig          *)
    stmtCh,              (* the StatementResultCh being received from         *)
    statementResult,     (* the statement result received last                *)
    namesRowCh,          (* dumpTables: getTableStatementResult.RowCh         *)
    rowCh,               (* the RowCh being ranged over, other than the names *)
    rowResult,           (* the row result received last                      *)
    formattedTableName,  (* dumpTables: formattedRow[0]                       *)
    createTable,         (* getTableSchema: createTable / createTableStmt     *)
    otherStmts,          (* getTableSchema: otherStmts                        *)
    idx,                 (* dumpTables: the position in range otherStmts      *)
    withoutHeader,       (* PrintStatementsResult: withoutHeader              *)
    table,               (* PrintStatementResult: the tablewriter table       *)
    firstErr,            (* history: the first error that occurred            *)
    val,                 (* formatValue: the value given                      *)
    result,              (* formatValue: the string and the error returned    *)
    printed,             (* history: per statement result PrintStatementsResult *)
                         (* received, the result and what became of its rows    *)
    listed,              (* history: the row stream of the table-listing query *)
    tables               (* history: per enumerated table, its name, where    *)
                         (* its lines start in outF, and the streams it got   *)

vars == <<prog, pc, outF, err, queries, configOk, stmtCh, statementResult,
          namesRowCh, rowCh, rowResult, formattedTableName, createTable,
          otherStmts, idx, withoutHeader, table, val, result, firstErr,
          listed, tables, printed>>

dumpLocals == <<stmtCh, statementResult, namesRowCh, rowCh, rowResult,
                formattedTableName, createTable, otherStmts, idx>>

NoTable == [header |-> <<>>, rows |-> <<>>]

PragmaLine ==
    <<"P", "R", "A", "G", "M", "A", " ", "f", "o", "r", "e", "i", "g", "n",
      "_", "k", "e", "y", "s", "=", "O", "F", "F", ";">>

MissingDbConnection == <<"missing db connection">>

(* The first error of the run is e (history). *)
Noted(e) == IF firstErr = NilErr THEN e ELSE firstErr

(* return e from the entry point *)
Return(e) ==
    /\ pc' = "done"
    /\ err' = e

(* --------------------------- dumpCmd.RunE ----------------------------- *)
(* RunE without line 21 *)
RunE_NoPragma ==
    /\ prog = "dump" /\ pc = "RunE"
    /\ IF ~configOk
       THEN /\ Return(MissingDbConnection)
            /\ firstErr' = Noted(MissingDbConnection)
            /\ outF' = outF
       ELSE /\ outF' = outF
            /\ pc' = "getDbTableNames"
            /\ UNCHANGED <<err, firstErr>>
    /\ UNCHANGED <<prog, val, result, printed, listed, queries, configOk, dumpLocals, withoutHeader, table, tables>>

RunE ==
    /\ prog = "dump" /\ pc = "RunE"
    /\ IF ~configOk
       THEN /\ Return(MissingDbConnection)
            /\ firstErr' = Noted(MissingDbConnection)
            /\ outF' = outF
       ELSE /\ outF' = Append(outF, PragmaLine)
            /\ pc' = "getDbTableNames"
            /\ UNCHANGED <<err, firstErr>>
    /\ UNCHANGED <<prog, val, result, printed, listed, queries, configOk, dumpLocals, withoutHeader, table, tables>>

(* getDbTableNames, lines 100-103: the query is executed *)
getDbTableNames ==
    /\ prog = "dump" /\ pc = "getDbTableNames"
    /\ queries' = Append(queries, NamesQuery)
    /\ \E res \in ExecuteStatements(NamesQuery) :
          IF res.err # NilErr
          THEN /\ Return(res.err)
               /\ firstErr' = Noted(res.err)
               /\ stmtCh' = stmtCh
          ELSE /\ stmtCh' = res.ch
               /\ pc' = "getDbTableNames_recv"
               /\ UNCHANGED <<err, firstErr>>
    /\ UNCHANGED <<prog, val, result, printed, listed, outF, configOk, statementResult, namesRowCh, rowCh,
                   rowResult, formattedTableName, createTable, otherStmts, idx,
                   withoutHeader, table, tables>>

(* A receive from channel ch.  A nil channel never delivers.  Otherwise    *)
(* the receive yields the next element the producer has, or one of the     *)
(* failing elements the producer may send in its place, or, when the       *)
(* producer has nothing left, the zero value of the closed channel.        *)
CanRecv(ch) == ~ch.isNil
Receive(ch, faults, zero) ==
    {[closed |-> FALSE, item |-> x] :
        x \in faults \cup (IF ch.q = <<>> THEN {} ELSE {Head(ch.q)})}
    \cup (IF ch.q = <<>> THEN {[closed |-> TRUE, item |-> zero]} ELSE {})
(* the channel after the receive of item *)
After(ch, item) ==
    IF ch.q # <<>> /\ item = Head(ch.q) THEN Chan(Tail(ch.q)) ELSE ch

(* getDbTableNames, lines 105-110 *)
getDbTableNames_recv ==
    /\ prog = "dump" /\ pc = "getDbTableNames_recv"
    /\ CanRecv(stmtCh)
    /\ \E d \in Receive(stmtCh, {}, ZeroStmt) :
       LET sr == d.item
       IN  IF sr.Err # NilErr
           THEN /\ Return(sr.Err)
                /\ firstErr' = Noted(sr.Err)
                /\ UNCHANGED <<stmtCh, namesRowCh, listed>>
           ELSE /\ namesRowCh' = sr.RowCh
                /\ listed' = sr.RowCh.q
                /\ stmtCh' = NilCh
                /\ pc' = "dumpTables"
                /\ UNCHANGED <<err, firstErr>>
    /\ UNCHANGED <<prog, val, result, printed, outF, queries, configOk, statementResult, rowCh,
                   rowResult, formattedTableName, createTable, otherStmts, idx,
                   withoutHeader, table, tables>>

(* dumpTables receiving every name before it goes on to the tables *)
dumpTables_Drain ==
    /\ prog = "dump" /\ pc = "dumpTables"
    /\ CanRecv(namesRowCh)
    /\ \E d \in Receive(namesRowCh, NameFaults, ZeroRow) :
          LET tableNameRowResult == d.item
              formatted == FormatData(tableNameRowResult.Row, "TABLE")
          IN  /\ namesRowCh' = After(namesRowCh, d.item)
              /\ IF d.closed
                 THEN /\ Return(NilErr)
                      /\ UNCHANGED <<formattedTableName, firstErr, tables>>
                 ELSE IF tableNameRowResult.Err # NilErr
                 THEN /\ Return(tableNameRowResult.Err)
                      /\ firstErr' = Noted(tableNameRowResult.Err)
                      /\ UNCHANGED <<formattedTableName, tables>>
                 ELSE IF formatted.err # NilErr
                 THEN /\ Return(formatted.err)
                      /\ firstErr' = Noted(formatted.err)
                      /\ UNCHANGED <<formattedTableName, tables>>
                 ELSE /\ formattedTableName' = formatted.row[1]
                      /\ tables' = Append(tables,
                             [name |-> formatted.row[1], start |-> Len(outF) + 1,
                              schema |-> <<>>, records |-> <<>>])
                      /\ pc' = IF After(namesRowCh, d.item).q # <<>> THEN "dumpTables"
                               ELSE "getTableSchema"
                      /\ UNCHANGED <<err, firstErr>>
    /\ UNCHANGED <<prog, val, result, printed, listed, outF, queries, configOk, stmtCh, statementResult, rowCh,
                   rowResult, createTable, otherStmts, idx, withoutHeader, table>>

(* dumpTables returning an error when the range ends before any table *)
dumpTables_EmptyIsError ==
    /\ prog = "dump" /\ pc = "dumpTables"
    /\ CanRecv(namesRowCh)
    /\ \E d \in Receive(namesRowCh, NameFaults, ZeroRow) :
          LET tableNameRowResult == d.item
              formatted == FormatData(tableNameRowResult.Row, "TABLE")
          IN  /\ namesRowCh' = After(namesRowCh, d.item)
              /\ IF d.closed
                 THEN /\ Return(IF tables = <<>> THEN <<"no tables">> ELSE NilErr)
                      /\ UNCHANGED <<formattedTableName, firstErr, tables>>
                 ELSE IF tableNameRowResult.Err # NilErr
                 THEN /\ Return(tableNameRowResult.Err)
                      /\ firstErr' = Noted(tableNameRowResult.Err)
                      /\ UNCHANGED <<formattedTableName, tables>>
                 ELSE IF formatted.err # NilErr
                 THEN /\ Return(formatted.err)
                      /\ firstErr' = Noted(formatted.err)
                      /\ UNCHANGED <<formattedTableName, tables>>
                 ELSE /\ formattedTableName' = formatted.row[1]
                      /\ tables' = Append(tables,
                             [name |-> formatted.row[1], start |-> Len(outF) + 1,
                              schema |-> <<>>, records |-> <<>>])
                      /\ pc' = "getTableSchema"
                      /\ UNCHANGED <<err, firstErr>>
    /\ UNCHANGED <<prog, val, result, printed, listed, outF, queries, configOk, stmtCh, statementResult, rowCh,
                   rowResult, createTable, otherStmts, idx, withoutHeader, table>>

(* dumpTables, lines 38-47: the next table name is received and formatted, *)
(* or the loop ends with the closed channel (line 71)                      *)
dumpTables ==
    /\ prog = "dump" /\ pc = "dumpTables"
    /\ CanRecv(namesRowCh)
    /\ \E d \in Receive(namesRowCh, NameFaults, ZeroRow) :
          LET tableNameRowResult == d.item
              formatted == FormatData(tableNameRowResult.Row, "TABLE")
          IN  /\ namesRowCh' = After(namesRowCh, d.item)
              /\ IF d.closed
                 THEN /\ Return(NilErr)
                      /\ UNCHANGED <<formattedTableName, firstErr, tables>>
                 ELSE IF tableNameRowResult.Err # NilErr
                 THEN /\ Return(tableNameRowResult.Err)
                      /\ firstErr' = Noted(tableNameRowResult.Err)
                      /\ UNCHANGED <<formattedTableName, tables>>
                 ELSE IF formatted.err # NilErr
                 THEN /\ Return(formatted.err)
                      /\ firstErr' = Noted(formatted.err)
                      /\ UNCHANGED <<formattedTableName, tables>>
                 ELSE /\ formattedTableName' = formatted.row[1]
                      /\ tables' = Append(tables,
                             [name |-> formatted.row[1], start |-> Len(outF) + 1,
                              schema |-> <<>>, records |-> <<>>])
                      /\ pc' = "getTableSchema"
                      /\ UNCHANGED <<err, firstErr>>
    /\ UNCHANGED <<prog, val, result, printed, listed, outF, queries, configOk, stmtCh, statementResult, rowCh,
                   rowResult, createTable, otherStmts, idx, withoutHeader, table>>

(* history: the streams the current table got *)
NoteSchema(stream) ==
    [tables EXCEPT ![Len(tables)].schema = stream]
NoteRecords(stream) ==
    [tables EXCEPT ![Len(tables)].records = stream]

(* getTableSchema appending to a buffer that outlives the call *)
getTableSchema_KeepsOthers ==
    /\ prog = "dump" /\ pc = "getTableSchema"
    /\ LET query == SchemaQuery(EscapeSingleQuotes(formattedTableName))
       IN  /\ queries' = Append(queries, query)
           /\ \E res \in ExecuteStatements(query) :
                 IF res.err # NilErr
                 THEN /\ Return(res.err)
                      /\ firstErr' = Noted(res.err)
                      /\ stmtCh' = stmtCh
                 ELSE /\ stmtCh' = res.ch
                      /\ pc' = "getTableSchema_recv"
                      /\ UNCHANGED <<err, firstErr>>
    /\ createTable' = <<>>
    /\ otherStmts' = otherStmts
    /\ UNCHANGED <<prog, val, result, printed, listed, outF, configOk, statementResult, namesRowCh, rowCh,
                   rowResult, formattedTableName, idx, withoutHeader, table, tables>>

(* getTableSchema, lines 114-120, called from dumpTables line 49; the named *)
(* results start empty (line 113)                                          *)
getTableSchema ==
    /\ prog = "dump" /\ pc = "getTableSchema"
    /\ LET query == SchemaQuery(EscapeSingleQuotes(formattedTableName))
       IN  /\ queries' = Append(queries, query)
           /\ \E res \in ExecuteStatements(query) :
                 IF res.err # NilErr
                 THEN /\ Return(res.err)
                      /\ firstErr' = Noted(res.err)
                      /\ stmtCh' = stmtCh
                 ELSE /\ stmtCh' = res.ch
                      /\ pc' = "getTableSchema_recv"
                      /\ UNCHANGED <<err, firstErr>>
    /\ createTable' = <<>>
    /\ otherStmts' = <<>>
    /\ UNCHANGED <<prog, val, result, printed, listed, outF, configOk, statementResult, namesRowCh, rowCh,
                   rowResult, formattedTableName, idx, withoutHeader, table, tables>>

(* getTableSchema, lines 122-125 *)
getTableSchema_recv ==
    /\ prog = "dump" /\ pc = "getTableSchema_recv"
    /\ CanRecv(stmtCh)
    /\ \E d \in Receive(stmtCh, {}, ZeroStmt) :
       LET sr == d.item
       IN  /\ statementResult' = sr
           /\ IF sr.Err # NilErr
              THEN /\ Return(sr.Err)
                   /\ firstErr' = Noted(sr.Err)
                   /\ UNCHANGED <<stmtCh, rowCh, tables>>
              ELSE /\ rowCh' = sr.RowCh
                   /\ stmtCh' = NilCh
                   /\ tables' = NoteSchema(sr.RowCh.q)
                   /\ pc' = "getTableSchema_range"
                   /\ UNCHANGED <<err, firstErr>>
    /\ UNCHANGED <<prog, val, result, printed, listed, outF, queries, configOk, namesRowCh, rowResult,
                   formattedTableName, createTable, otherStmts, idx,
                   withoutHeader, table>>

(* The error getTableSchema returns for a row that carries an error        *)
(* (line 129).                                                             *)
SchemaRowErrorResult(sr, row) == sr.Err

(* getTableSchema, lines 127-150: one iteration of the range over the      *)
(* schema rows, or the return at its end                                   *)
getTableSchema_range ==
    /\ prog = "dump" /\ pc = "getTableSchema_range"
    /\ CanRecv(rowCh)
    /\ \E d \in Receive(rowCh, SchemaFaults, ZeroRow) :
          LET statementRowResult == d.item
              formatted == FormatData(statementRowResult.Row, "TABLE")
              returned == SchemaRowErrorResult(statementResult, statementRowResult)
              columns == <<"expected 2 columns, got", NatToStr(Len(formatted.row))>>
          IN  IF d.closed
              THEN /\ pc' = "dumpTables_create"
                   /\ rowCh' = NilCh
                   /\ UNCHANGED <<err, firstErr, createTable, otherStmts>>
              ELSE IF statementRowResult.Err # NilErr
              THEN /\ firstErr' = Noted(statementRowResult.Err)
                   /\ createTable' = <<>>
                   /\ otherStmts' = <<>>
                   /\ IF returned # NilErr
                      THEN Return(returned) /\ rowCh' = rowCh
                      ELSE pc' = "dumpTables_create" /\ err' = err /\ rowCh' = NilCh
              ELSE IF formatted.err # NilErr
              THEN /\ Return(<<"failed to format data">> \o formatted.err)
                   /\ firstErr' = Noted(formatted.err)
                   /\ createTable' = <<>>
                   /\ otherStmts' = <<>>
                   /\ rowCh' = rowCh
              ELSE IF Len(formatted.row) # 2
              THEN /\ Return(columns)
                   /\ firstErr' = Noted(columns)
                   /\ createTable' = <<>>
                   /\ otherStmts' = <<>>
                   /\ rowCh' = rowCh
              ELSE /\ rowCh' = After(rowCh, d.item)
                   /\ IF formatted.row[1] = KindTable
                      THEN createTable' = formatted.row[2] /\ otherStmts' = otherStmts
                      ELSE otherStmts' = Append(otherStmts, formatted.row[2])
                              /\ createTable' = createTable
                   /\ UNCHANGED <<pc, err, firstErr>>
    /\ statementResult' = IF pc' = "getTableSchema_range" THEN statementResult ELSE ZeroStmt
    /\ UNCHANGED <<prog, val, result, printed, listed, outF, queries, configOk, stmtCh, namesRowCh, rowResult,
                   formattedTableName, idx, withoutHeader, table, tables>>

(* dumpTables, line 54 *)
dumpTables_create ==
    /\ prog = "dump" /\ pc = "dumpTables_create"
    /\ outF' = Append(outF, createTable)
    /\ pc' = "getTableRecords"
    /\ UNCHANGED <<prog, val, result, printed, listed, err, queries, configOk, dumpLocals, withoutHeader, table,
                   firstErr, tables>>

(* getTableRecords, lines 154-160, called from dumpTables line 56 *)
getTableRecords ==
    /\ prog = "dump" /\ pc = "getTableRecords"
    /\ LET query == RecordsQuery(EscapeSingleQuotes(formattedTableName))
       IN  /\ queries' = Append(queries, query)
           /\ \E res \in ExecuteStatements(query) :
                 IF res.err # NilErr
                 THEN /\ Return(res.err)
                      /\ firstErr' = Noted(res.err)
                      /\ stmtCh' = stmtCh
                 ELSE /\ stmtCh' = res.ch
                      /\ pc' = "getTableRecords_recv"
                      /\ UNCHANGED <<err, firstErr>>
    /\ UNCHANGED <<prog, val, result, printed, listed, outF, configOk, statementResult, namesRowCh, rowCh,
                   rowResult, formattedTableName, createTable, otherStmts, idx,
                   withoutHeader, table, tables>>

(* getTableRecords, lines 162-167 *)
getTableRecords_recv ==
    /\ prog = "dump" /\ pc = "getTableRecords_recv"
    /\ CanRecv(stmtCh)
    /\ \E d \in Receive(stmtCh, {}, ZeroStmt) :
       LET sr == d.item
       IN  IF sr.Err # NilErr
           THEN /\ Return(sr.Err)
                /\ firstErr' = Noted(sr.Err)
                /\ UNCHANGED <<stmtCh, rowCh, tables>>
           ELSE /\ rowCh' = sr.RowCh
                /\ stmtCh' = NilCh
                /\ tables' = NoteRecords(sr.RowCh.q)
                /\ pc' = "dumpTableRecords"
                /\ UNCHANGED <<err, firstErr>>
    /\ UNCHANGED <<prog, val, result, printed, listed, outF, queries, configOk, statementResult, namesRowCh,
                   rowResult, formattedTableName, createTable, otherStmts, idx,
                   withoutHeader, table>>

(* dumpTableRecords receiving the rows two at a time *)
dumpTableRecords_Prefetch ==
    /\ prog = "dump" /\ pc = "dumpTableRecords"
    /\ CanRecv(rowCh)
    /\ \E d \in Receive(rowCh, RecordFaults, ZeroRow) :
          IF d.closed
          THEN /\ pc' = "dumpTables_others"
               /\ idx' = 1
               /\ rowCh' = NilCh
               /\ rowResult' = rowResult
          ELSE /\ rowResult' = d.item
               /\ rowCh' = LET rest == After(rowCh, d.item)
                           IN  IF rest.q # <<>> THEN Chan(Tail(rest.q)) ELSE rest
               /\ pc' = "dumpTableRecords_insert"
               /\ idx' = idx
    /\ UNCHANGED <<prog, val, result, printed, listed, outF, err, queries, configOk, stmtCh,
                   statementResult, namesRowCh, formattedTableName, createTable,
                   otherStmts, withoutHeader, table, firstErr, tables>>

(* dumpTableRecords, line 75: the next row is received, or the range ends  *)
(* (line 96) and dumpTables goes on to line 66                             *)
dumpTableRecords ==
    /\ prog = "dump" /\ pc = "dumpTableRecords"
    /\ CanRecv(rowCh)
    /\ \E d \in Receive(rowCh, RecordFaults, ZeroRow) :
          IF d.closed
          THEN /\ pc' = "dumpTables_others"
               /\ idx' = 1
               /\ rowCh' = NilCh
               /\ rowResult' = rowResult
          ELSE /\ rowResult' = d.item
               /\ rowCh' = After(rowCh, d.item)
               /\ pc' = "dumpTableRecords_insert"
               /\ idx' = idx
    /\ UNCHANGED <<prog, val, result, printed, listed, outF, err, queries, configOk, stmtCh, statementResult,
                   namesRowCh, formattedTableName, createTable, otherStmts,
                   withoutHeader, table, firstErr, tables>>

(* the INSERT statement with the name quoted but its quotes not doubled *)
InsertStatementUnescaped(tableName, formattedRow) ==
    LET name == IF NeedsEscaping(tableName)
                THEN <<"'">> \o tableName \o <<"'">>
                ELSE tableName
    IN  <<"I", "N", "S", "E", "R", "T", " ", "I", "N", "T", "O", " ">> \o name
        \o <<" ", "V", "A", "L", "U", "E", "S", " ", "(">>
        \o Join(formattedRow, <<",", " ">>) \o <<")", ";">>

(* dumpTableRecords, lines 80-84 and 91-92: the INSERT statement of a      *)
(* formatted row                                                           *)
InsertStatement(tableName, formattedRow) ==
    LET name == IF NeedsEscaping(tableName)
                THEN <<"'">> \o EscapeSingleQuotes(tableName) \o <<"'">>
                ELSE tableName
    IN  <<"I", "N", "S", "E", "R", "T", " ", "I", "N", "T", "O", " ">> \o name
        \o <<" ", "V", "A", "L", "U", "E", "S", " ", "(">>
        \o Join(formattedRow, <<",", " ">>) \o <<")", ";">>

(* dumpTableRecords writing the head of the statement before it formats    *)
(* the row                                                                 *)
dumpTableRecords_insert_HeadFirst ==
    /\ prog = "dump" /\ pc = "dumpTableRecords_insert"
    /\ LET formatted == FormatData(rowResult.Row, "SQLITE")
       IN  IF rowResult.Err # NilErr
           THEN /\ Return(rowResult.Err)
                /\ firstErr' = Noted(rowResult.Err)
                /\ outF' = outF
           ELSE IF formatted.err # NilErr
           THEN /\ Return(formatted.err)
                /\ firstErr' = Noted(formatted.err)
                /\ outF' = Append(outF, <<"I", "N", "S", "E", "R", "T", " ", "I", "N", "T", "O", " ">>)
           ELSE /\ outF' = Append(outF, InsertStatement(formattedTableName, formatted.row))
                /\ pc' = "dumpTableRecords"
                /\ UNCHANGED <<err, firstErr>>
    /\ rowResult' = IF pc' = "done" THEN rowResult ELSE ZeroRow
    /\ UNCHANGED <<prog, val, result, printed, listed, queries, configOk, stmtCh,
                   statementResult, namesRowCh, rowCh, formattedTableName,
                   createTable, otherStmts, idx, withoutHeader, table, tables>>

(* dumpTableRecords, lines 76-93: the body of the range for the row        *)
dumpTableRecords_insert ==
    /\ prog = "dump" /\ pc = "dumpTableRecords_insert"
    /\ LET formatted == FormatData(rowResult.Row, "SQLITE")
       IN  IF rowResult.Err # NilErr
           THEN /\ Return(rowResult.Err)
                /\ firstErr' = Noted(rowResult.Err)
                /\ outF' = outF
           ELSE IF formatted.err # NilErr
           THEN /\ Return(formatted.err)
                /\ firstErr' = Noted(formatted.err)
                /\ outF' = outF
           ELSE /\ outF' = Append(outF, InsertStatement(formattedTableName, formatted.row))
                /\ pc' = "dumpTableRecords"
                /\ UNCHANGED <<err, firstErr>>
    /\ rowResult' = IF pc' = "done" THEN rowResult ELSE ZeroRow
    /\ UNCHANGED <<prog, val, result, printed, listed, queries, configOk, stmtCh, statementResult, namesRowCh,
                   rowCh, formattedTableName, createTable, otherStmts, idx,
                   withoutHeader, table, tables>>

(* dumpTables, lines 66-69: one auxiliary statement is written, or the     *)
(* iteration for the table ends                                            *)
dumpTables_others ==
    /\ prog = "dump" /\ pc = "dumpTables_others"
    /\ IF idx <= Len(otherStmts)
       THEN /\ outF' = Append(outF, otherStmts[idx])
            /\ idx' = idx + 1
            /\ UNCHANGED <<pc, formattedTableName, createTable, otherStmts>>
       ELSE /\ pc' = "dumpTables"
            /\ idx' = 0
            /\ UNCHANGED <<outF, formattedTableName, createTable, otherStmts>>
    /\ UNCHANGED <<prog, val, result, printed, listed, err, queries, configOk, stmtCh, statementResult,
                   namesRowCh, rowCh, rowResult, withoutHeader, table, firstErr, tables>>

(* ----------------------- PrintStatementsResult ------------------------ *)
InvalidStatementsResult == <<"missing statement result channel">>
UnableToPrintStatementResult == <<"unable to print statement result">>

(* The rows a printed statement may deliver. *)
PrintRowAt(i) ==
    RowOk(<<VInt("int64", i), VStruct("NullString", TRUE, i % 2 = 0, "string",
                                      FALSE, 0, <<"x">>)>>)

PrintRowStreams == {[i \in 1..n |-> PrintRowAt(i)] : n \in 0..MaxRows}

PrintColumns == <<<<"i", "d">>, <<"v">>>>

(* the statement results that print: without columns (with no row, and     *)
(* with one row of no values), and one per row stream                      *)
PrintStatementResults ==
    {StmtOk(<<>>, Chan(<<>>)), StmtOk(<<>>, Chan(<<RowOk(<<>>)>>))}
    \cup {StmtOk(PrintColumns, Chan(s)) : s \in PrintRowStreams}

(* The failing elements: of a row stream, a row error and a row with a     *)
(* value that does not format; of the statement stream, a statement error  *)
(* and a statement result whose RowCh is nil, with and without columns.    *)
PrintRowFaults == {RowErr(RowError), RowOk(<<BadValue>>)}
PrintStatementFaults ==
    {StmtErr(StatementError), StmtOk(PrintColumns, NilCh), StmtOk(<<>>, NilCh)}

PrintInputs ==
    {NilCh} \cup {Chan(s) : s \in SeqsUpTo(PrintStatementResults, MaxStatements)}

(* history: what became of the rows of the statement result received last: *)
(* "received" (PrintStatementResult not yet called), "unreadable" (RowCh   *)
(* nil), "unread" (no columns: the row stream is not received from),       *)
(* "open" (being ranged over), "ended" (received from until it was closed) *)
(* or "failed" (a row carried an error or did not format).                 *)
Became(what) == [printed EXCEPT ![Len(printed)].rows = what]

(* PrintStatementsResult, lines 16-18 *)
PrintStatementsResult ==
    /\ prog = "print" /\ pc = "PrintStatementsResult"
    /\ IF stmtCh.isNil
       THEN /\ Return(InvalidStatementsResult)
            /\ firstErr' = Noted(InvalidStatementsResult)
       ELSE /\ pc' = "PrintStatementsResult_range"
            /\ UNCHANGED <<err, firstErr>>
    /\ UNCHANGED <<prog, val, result, printed, listed, outF, queries, configOk, dumpLocals, withoutHeader,
                   table, tables>>

(* PrintStatementsResult, lines 20-24 and 30: the next statement result is *)
(* received, or the range ends                                             *)
PrintStatementsResult_range ==
    /\ prog = "print" /\ pc = "PrintStatementsResult_range"
    /\ CanRecv(stmtCh)
    /\ \E d \in Receive(stmtCh, PrintStatementFaults, ZeroStmt) :
          IF d.closed
          THEN /\ Return(NilErr)
               /\ UNCHANGED <<stmtCh, statementResult, firstErr, printed>>
          ELSE /\ statementResult' = d.item
               /\ printed' = Append(printed, [stmt |-> d.item, rows |-> "received"])
               /\ stmtCh' = After(stmtCh, d.item)
               /\ IF d.item.Err # NilErr
                  THEN /\ Return(d.item.Err)
                       /\ firstErr' = Noted(d.item.Err)
                  ELSE /\ pc' = "PrintStatementResult"
                       /\ UNCHANGED <<err, firstErr>>
    /\ UNCHANGED <<prog, val, result, listed, outF, queries, configOk, namesRowCh, rowCh, rowResult,
                   formattedTableName, createTable, otherStmts, idx,
                   withoutHeader, table, tables>>

(* PrintStatementResult rendering a table for a result without columns *)
PrintStatementResult_RendersEmpty ==
    /\ prog = "print" /\ pc = "PrintStatementResult"
    /\ IF statementResult.RowCh.isNil
       THEN /\ Return(UnableToPrintStatementResult)
            /\ firstErr' = Noted(UnableToPrintStatementResult)
            /\ printed' = Became("unreadable")
            /\ UNCHANGED <<rowCh, table>>
       ELSE /\ table' = [header |-> IF withoutHeader THEN <<>>
                                    ELSE statementResult.ColumnNames,
                         rows |-> <<>>]
            /\ rowCh' = statementResult.RowCh
            /\ pc' = "PrintStatementResult_range"
            /\ printed' = Became("open")
            /\ UNCHANGED <<err, firstErr>>
    /\ UNCHANGED <<prog, val, result, listed, outF, queries, configOk, stmtCh, statementResult,
                   namesRowCh, rowResult, formattedTableName, createTable,
                   otherStmts, idx, withoutHeader, tables>>

(* PrintStatementResult, lines 34-45, called from line 25 *)
PrintStatementResult ==
    /\ prog = "print" /\ pc = "PrintStatementResult"
    /\ IF statementResult.RowCh.isNil
       THEN /\ Return(UnableToPrintStatementResult)
            /\ firstErr' = Noted(UnableToPrintStatementResult)
            /\ printed' = Became("unreadable")
            /\ UNCHANGED <<rowCh, table>>
       ELSE IF Len(statementResult.ColumnNames) = 0
       THEN /\ pc' = "PrintStatementsResult_range"
            /\ printed' = Became("unread")
            /\ UNCHANGED <<err, firstErr, rowCh, table>>
       ELSE /\ table' = [header |-> IF withoutHeader THEN <<>>
                                    ELSE statementResult.ColumnNames,
                         rows |-> <<>>]
            /\ rowCh' = statementResult.RowCh
            /\ pc' = "PrintStatementResult_range"
            /\ printed' = Became("open")
            /\ UNCHANGED <<err, firstErr>>
    /\ UNCHANGED <<prog, val, result, listed, outF, queries, configOk, stmtCh, statementResult,
                   namesRowCh, rowResult, formattedTableName, createTable,
                   otherStmts, idx, withoutHeader, tables>>

(* PrintStatementResult rendering after the first row, the rest of the     *)
(* stream left behind                                                      *)
PrintStatementResult_range_StopsEarly ==
    /\ prog = "print" /\ pc = "PrintStatementResult_range"
    /\ CanRecv(rowCh)
    /\ \E d \in Receive(rowCh, PrintRowFaults, ZeroRow) :
          IF d.closed \/ table.rows # <<>>
          THEN /\ outF' = Append(outF, table)
               /\ table' = NoTable
               /\ rowCh' = NilCh
               /\ pc' = "PrintStatementsResult_range"
               /\ rowResult' = rowResult
               /\ printed' = Became(IF d.closed THEN "ended" ELSE "left")
          ELSE /\ rowResult' = d.item
               /\ rowCh' = After(rowCh, d.item)
               /\ pc' = "PrintStatementResult_row"
               /\ UNCHANGED <<outF, table, printed>>
    /\ UNCHANGED <<prog, val, result, listed, err, queries, configOk, stmtCh,
                   statementResult, namesRowCh, formattedTableName, createTable,
                   otherStmts, idx, withoutHeader, firstErr, tables>>

(* PrintStatementResult, line 47: the next row is received; or the range   *)
(* ends, the table is rendered into the sink (line 59) and                 *)
(* PrintStatementsResult goes on                                           *)
PrintStatementResult_range ==
    /\ prog = "print" /\ pc = "PrintStatementResult_range"
    /\ CanRecv(rowCh)
    /\ \E d \in Receive(rowCh, PrintRowFaults, ZeroRow) :
          IF d.closed
          THEN /\ outF' = Append(outF, table)
               /\ table' = NoTable
               /\ rowCh' = NilCh
               /\ pc' = "PrintStatementsResult_range"
               /\ rowResult' = rowResult
               /\ printed' = Became("ended")
          ELSE /\ rowResult' = d.item
               /\ rowCh' = After(rowCh, d.item)
               /\ pc' = "PrintStatementResult_row"
               /\ UNCHANGED <<outF, table, printed>>
    /\ UNCHANGED <<prog, val, result, listed, err, queries, configOk, stmtCh, statementResult,
                   namesRowCh, formattedTableName, createTable, otherStmts, idx,
                   withoutHeader, firstErr, tables>>

(* PrintStatementResult writing each row to the sink as it is formatted *)
PrintStatementResult_row_Streams ==
    /\ prog = "print" /\ pc = "PrintStatementResult_row"
    /\ LET formatted == formatData(rowResult.Row)
       IN  IF rowResult.Err # NilErr
           THEN /\ Return(rowResult.Err)
                /\ firstErr' = Noted(rowResult.Err)
                /\ printed' = Became("failed")
                /\ UNCHANGED <<table, outF>>
           ELSE IF formatted.err # NilErr
           THEN /\ Return(formatted.err)
                /\ firstErr' = Noted(formatted.err)
                /\ printed' = Became("failed")
                /\ UNCHANGED <<table, outF>>
           ELSE /\ table' = [table EXCEPT !.rows = Append(@, formatted.row)]
                /\ outF' = Append(outF, [header |-> <<>>, rows |-> <<formatted.row>>])
                /\ pc' = "PrintStatementResult_range"
                /\ UNCHANGED <<err, firstErr, printed>>
    /\ UNCHANGED <<prog, val, result, listed, queries, configOk, dumpLocals,
                   withoutHeader, tables>>

(* PrintStatementResult skipping a row that carries an error *)
PrintStatementResult_row_Skip ==
    /\ prog = "print" /\ pc = "PrintStatementResult_row"
    /\ LET formatted == formatData(rowResult.Row)
       IN  IF rowResult.Err # NilErr
           THEN /\ pc' = "PrintStatementResult_range"
                /\ UNCHANGED <<err, firstErr, table, printed>>
           ELSE IF formatted.err # NilErr
           THEN /\ Return(formatted.err)
                /\ firstErr' = Noted(formatted.err)
                /\ printed' = Became("failed")
                /\ table' = table
           ELSE /\ table' = [table EXCEPT !.rows = Append(@, formatted.row)]
                /\ pc' = "PrintStatementResult_range"
                /\ UNCHANGED <<err, firstErr, printed>>
    /\ UNCHANGED <<prog, val, result, listed, outF, queries, configOk, dumpLocals, withoutHeader, tables>>

(* PrintStatementResult, lines 48-56: the body of the range for the row *)
PrintStatementResult_row ==
    /\ prog = "print" /\ pc = "PrintStatementResult_row"
    /\ LET formatted == formatData(rowResult.Row)
       IN  IF rowResult.Err # NilErr
           THEN /\ Return(rowResult.Err)
                /\ firstErr' = Noted(rowResult.Err)
                /\ printed' = Became("failed")
                /\ table' = table
           ELSE IF formatted.err # NilErr
           THEN /\ Return(formatted.err)
                /\ firstErr' = Noted(formatted.err)
                /\ printed' = Became("failed")
                /\ table' = table
           ELSE /\ table' = [table EXCEPT !.rows = Append(@, formatted.row)]
                /\ pc' = "PrintStatementResult_range"
                /\ UNCHANGED <<err, firstErr, printed>>
    /\ UNCHANGED <<prog, val, result, listed, outF, queries, configOk, dumpLocals, withoutHeader, tables>>

(* ---------------------------- formatValue ----------------------------- *)
(* The values formatValue is given: every classification, with the shapes  *)
(* the driver does not produce as well.                                    *)
SignedKinds == {"int", "int8", "int16", "int32", "int64"}
SampleStrings == {<<>>, <<"o", "'", "c">>, <<"N", "U", "L", "L">>}
SampleBytes == {0, 10, 171, 255}
Base64Chars == {"A", "Q", "/", "=", "\n"}
OtherKinds == {"chan", "func", "ptr", "complex128", "array"}

ScalarInputs ==
    {VNil} \cup {VBool(b) : b \in BOOLEAN}
    \cup {VInt(k, n) : k \in IntKinds, n \in {0, 120}}
    \cup {VInt(k, 0 - 12) : k \in SignedKinds}
    \cup {VString(s) : s \in SampleStrings}
    \cup {VFloat(k, n, half) : k \in FloatKinds, n \in {0, 2}, half \in {0, 1}}
    \cup {VOther(k) : k \in OtherKinds}

(* The kind of the payload field a wrapper type declares. *)
PayloadKind(t) ==
    IF t = "NullBool" THEN "bool"
    ELSE IF t = "NullFloat64" THEN "float64"
    ELSE IF t = "NullByte" THEN "uint8"
    ELSE IF t = "NullInt16" THEN "int16"
    ELSE IF t = "NullInt32" THEN "int32"
    ELSE IF t = "NullInt64" THEN "int64"
    ELSE IF t = "NullString" THEN "string"
    ELSE "struct"

(* Structs: the wrappers of database/sql with their payloads, structs that *)
(* carry a wrapper's name but not its payload field or a payload of        *)
(* another kind, structs of other types with a Valid field, and structs    *)
(* without one.                                                            *)
StructInputs ==
    UNION {{VStruct(t, TRUE, valid, pk, b, n, s) :
               valid \in BOOLEAN, pk \in {PayloadKind(t), "invalid", "chan"},
               b \in BOOLEAN, n \in {0, 7}, s \in {<<>>, <<"x">>}} :
           t \in NullTypes \cup {"NullTime", "Point"}}
    \cup {VStruct(t, FALSE, FALSE, PayloadKind(t), FALSE, 0, <<>>) :
            t \in {"NullString", "Point"}}

SliceInputs ==
    {VSlice("uint8", bytes) : bytes \in SeqsUpTo(SampleBytes, MaxBytes)}
    \cup {VSlice(ek, <<>>) : ek \in {"string", "int", "interface"}}

MapInputs ==
    {VMap(mk, s) : mk \in {"string", "iface_string"},
                   s \in SeqsUpTo(Base64Chars, MaxBase64Len)}
    \cup {VMap(mk, <<>>) : mk \in {"absent", "iface_nil", "other_zero", "int",
                                   "iface_int", "slice"}}

FormatInputs == ScalarInputs \cup StructInputs \cup SliceInputs \cup MapInputs

NoResult == Ok(<<>>)

(* A call of formatValue (lines 103-124) on val. *)
Format ==
    /\ prog = "format" /\ pc = "formatValue"
    /\ result' = formatValue(val)
    /\ pc' = "done"
    /\ UNCHANGED <<prog, val, outF, err, queries, configOk, dumpLocals, withoutHeader,
                   table, firstErr, listed, tables, printed>>

(* --------------------------- specification ---------------------------- *)
Init ==
    /\ prog \in {"dump", "print", "format"}
    /\ pc = IF prog = "dump" THEN "RunE"
            ELSE IF prog = "print" THEN "PrintStatementsResult" ELSE "formatValue"
    /\ val \in IF prog = "format" THEN FormatInputs ELSE {VNil}
    /\ result = NoResult
    /\ printed = <<>>
    /\ outF = <<>>
    /\ err = NilErr
    /\ queries = <<>>
    /\ configOk \in IF prog = "dump" THEN BOOLEAN ELSE {TRUE}
    /\ stmtCh \in IF prog = "print" THEN PrintInputs ELSE {NilCh}
    /\ statementResult = ZeroStmt
    /\ namesRowCh = NilCh
    /\ rowCh = NilCh
    /\ rowResult = ZeroRow
    /\ formattedTableName = <<>>
    /\ createTable = <<>>
    /\ otherStmts = <<>>
    /\ idx = 0
    /\ withoutHeader \in IF prog = "print" THEN BOOLEAN ELSE {FALSE}
    /\ table = NoTable
    /\ firstErr = NilErr
    /\ listed = <<>>
    /\ tables = <<>>

Next ==
    \/ RunE
    \/ getDbTableNames
    \/ getDbTableNames_recv
    \/ dumpTables
    \/ getTableSchema
    \/ getTableSchema_recv
    \/ getTableSchema_range
    \/ dumpTables_create
    \/ getTableRecords
    \/ getTableRecords_recv
    \/ dumpTableRecords
    \/ dumpTableRecords_insert
    \/ dumpTables_others
    \/ PrintStatementsResult
    \/ PrintStatementsResult_range
    \/ PrintStatementResult
    \/ PrintStatementResult_range
    \/ PrintStatementResult_row
    \/ Format

Spec == Init /\ [][Next]_vars

(* The command runs in one goroutine that is always scheduled, and a       *)
(* producer that has an element or a close to deliver delivers it: a step  *)
(* that can be taken is taken.  A receive from a nil channel is no step.   *)
FairSpec == Spec /\ WF_vars(Next)

(* ------------------------ reading the history ------------------------- *)
IsDump == prog = "dump"
IsPrint == prog = "print"
IsFormat == prog = "format"

(* the rows of a stream that carry no error *)
GoodRows(stream) == SelectSeq(stream, LAMBDA r : r.Err = NilErr)

(* the rows of a schema stream of the expected shape: type, sql *)
SchemaRows(stream) ==
    SelectSeq(stream, LAMBDA r : r.Err = NilErr /\ Len(r.Row) = 2
                                 /\ r.Row[1].k = "string" /\ r.Row[2].k = "string")

TableDdl(stream) ==
    SelectSeq(SchemaRows(stream), LAMBDA r : r.Row[1].s = KindTable)
AuxDdl(stream) ==
    SelectSeq(SchemaRows(stream), LAMBDA r : r.Row[1].s # KindTable)

SqlTexts(rows) == [j \in 1..Len(rows) |-> rows[j].Row[2].s]

(* The lines of the i-th enumerated table: from where its iteration began  *)
(* to where the next one began.                                            *)
BlockEnd(i) == IF i < Len(tables) THEN tables[i + 1].start - 1 ELSE Len(outF)
Block(i) == SubSeq(outF, tables[i].start, BlockEnd(i))

(* The iteration of dumpTables for the i-th table has run to its end. *)
Completed(i) == i < Len(tables) \/ (i = Len(tables) /\ pc = "dumpTables")

NumQueries(kind) == Len(SelectSeq(queries, LAMBDA x : x.q = kind))

(* The running function waits on a nil channel, which never delivers. *)
BlockedOnNil ==
    \/ /\ pc \in {"getDbTableNames_recv", "getTableSchema_recv",
                  "getTableRecords_recv", "PrintStatementsResult_range"}
       /\ stmtCh.isNil
    \/ pc = "dumpTables" /\ namesRowCh.isNil
    \/ /\ pc \in {"getTableSchema_range", "dumpTableRecords",
                  "PrintStatementResult_range"}
       /\ rowCh.isNil

(* ------------------------------- claims ------------------------------- *)

(* C1: for every table whose iteration has run to its end (and whose       *)
(* schema query returned one row of kind "table"), the lines written for   *)
(* it are the CREATE TABLE statement, then one INSERT line per row of its  *)
(* records stream in stream order, then the DDL of every other row of the  *)
(* schema query in the order returned.                                     *)
ExpectedBlock(i) ==
    LET sch == tables[i].schema
        recs == GoodRows(tables[i].records)
    IN  SqlTexts(TableDdl(sch))
        \o [j \in 1..Len(recs) |->
               InsertStatement(tables[i].name, formatData(recs[j].Row).row)]
        \o SqlTexts(AuxDdl(sch))

C1_TableBlock ==
    IsDump =>
        \A i \in 1..Len(tables) :
            (Completed(i) /\ Len(TableDdl(tables[i].schema)) = 1)
                => Block(i) = ExpectedBlock(i)

(* C2, as claimed: in every run of the dump, once RunE has acted, the      *)
(* first line of the sink is the pragma.                                   *)
C2_PragmaInEveryRun ==
    (IsDump /\ pc # "RunE") => (outF # <<>> /\ outF[1] = PragmaLine)

(* C2, amended: in every run that finds its db configuration the pragma is *)
(* the first line of the sink from RunE's first step on, so before any     *)
(* query is issued and whatever follows; a run without db configuration    *)
(* writes nothing and issues no query.                                     *)
C2_PragmaFirst ==
    IsDump =>
        /\ (configOk /\ pc # "RunE") => (outF # <<>> /\ outF[1] = PragmaLine)
        /\ (queries # <<>> \/ outF # <<>>) => (outF # <<>> /\ outF[1] = PragmaLine)
        /\ ~configOk => (outF = <<>> /\ queries = <<>>)

(* The table-listing query failed: the pragma is all there is. *)
C2_Witness ==
    /\ IsDump /\ pc = "done" /\ err = ExecError
    /\ queries = <<NamesQuery>>
    /\ outF = <<PragmaLine>>

(* C3: once an error has occurred in the dump, no further line is written  *)
(* and no further query is issued.                                         *)
C3_AbortOnFirstError ==
    [][(IsDump /\ firstErr # NilErr) => (outF' = outF /\ queries' = queries)]_vars

(* C4: when a statement result or a row result that was consumed carried   *)
(* an error, and that was the first error of the run, the run returns that *)
(* same error.                                                             *)
C4_ErrorPropagated ==
    (pc = "done" /\ firstErr \in {StatementError, RowError}) => err = firstErr

(* C5: the tables are dumped in the order in which the table-listing row   *)
(* stream delivered their names, and the blocks do not mix: the first      *)
(* block starts right after the pragma, each block starts after the one    *)
(* before, and every line of the i-th block is a line of the i-th table (a *)
(* statement of its schema stream, or an INSERT into it of one of its      *)
(* rows; the CREATE TABLE line may be empty, see C6).                      *)
LinesOf(i) ==
    LET schema == {tables[i].schema[j] : j \in 1..Len(tables[i].schema)}
        records == {tables[i].records[j] : j \in 1..Len(tables[i].records)}
    IN  {<<>>}
        \cup {r.Row[2].s : r \in {x \in schema : x.Err = NilErr /\ Len(x.Row) = 2}}
        \cup {InsertStatement(tables[i].name, formatData(r.Row).row) :
                 r \in {x \in records : x.Err = NilErr /\ formatData(x.Row).err = NilErr}}

C5_TablesInOrder ==
    IsDump =>
        \A i \in 1..Len(tables) :
            /\ i <= Len(listed)
            /\ listed[i].Err = NilErr
            /\ tables[i].name = listed[i].Row[1].s
            /\ i = 1 => tables[i].start = 2
            /\ i > 1 => tables[i].start > tables[i - 1].start
            /\ \A pos \in tables[i].start..BlockEnd(i) : outF[pos] \in LinesOf(i)

(* Table a, with its index and trigger, was dumped and then table q'. *)
C5_Witness ==
    /\ IsDump /\ pc = "dumpTables" /\ Len(tables) = 2
    /\ tables[1].name = NameA /\ tables[2].name = NameQ
    /\ Len(Block(1)) = 3 + MaxRows /\ Len(Block(2)) = 3

(* C6: for every table whose CREATE TABLE line has been written, the       *)
(* schema query returned exactly one row of kind "table" and the line is   *)
(* that row's DDL, not empty.                                              *)
C6_OneCreateTable ==
    IsDump =>
        \A i \in 1..Len(tables) :
            Len(outF) >= tables[i].start =>
                /\ Len(TableDdl(tables[i].schema)) = 1
                /\ outF[tables[i].start] = TableDdl(tables[i].schema)[1].Row[2].s
                /\ outF[tables[i].start] # <<>>

(* C7: every row of a records stream that was delivered without error and  *)
(* whose values format has exactly one line, at its position after the     *)
(* CREATE TABLE line: INSERT INTO <name> VALUES (<v1>, <v2>, ...); with    *)
(* the name in single quotes and its quotes doubled exactly when it holds  *)
(* a quote, text values verbatim and absent values as NULL.                *)
QuotedName(name) ==
    IF \E k \in 1..Len(name) : name[k] = "'"
    THEN <<"'">>
         \o Concat([k \in 1..Len(name) |->
                       IF name[k] = "'" THEN <<"'", "'">> ELSE <<name[k]>>])
         \o <<"'">>
    ELSE name

Literal(v) ==
    IF v.k = "nil" THEN <<"N", "U", "L", "L">>
    ELSE IF v.k = "string" THEN v.s
    ELSE formatValue(v).s

ExpectedInsert(name, row) ==
    <<"I", "N", "S", "E", "R", "T", " ", "I", "N", "T", "O", " ">>
    \o QuotedName(name)
    \o <<" ", "V", "A", "L", "U", "E", "S", " ", "(">>
    \o Concat([k \in 1..Len(row) |->
                  IF k = 1 THEN Literal(row[1]) ELSE <<",", " ">> \o Literal(row[k])])
    \o <<")", ";">>

(* how many elements of the i-th table's records stream were received, and *)
(* how many of them have been through the body of the range                *)
Consumed(i) ==
    IF i < Len(tables) \/ tables[i].records = <<>> THEN Len(tables[i].records)
    ELSE Len(tables[i].records) - Len(rowCh.q)
Processed(i) ==
    IF /\ i = Len(tables) /\ pc = "dumpTableRecords_insert"
       /\ Consumed(i) >= 1 /\ rowResult = tables[i].records[Consumed(i)]
    THEN Consumed(i) - 1
    ELSE Consumed(i)

Writable(r) == r.Err = NilErr /\ \A k \in 1..Len(r.Row) : formatValue(r.Row[k]).err = NilErr

C7_InsertLine ==
    IsDump =>
        \A i \in 1..Len(tables) :
            /\ \A j \in 1..Processed(i) :
                  Writable(tables[i].records[j]) =>
                      /\ Len(outF) >= tables[i].start + j
                      /\ outF[tables[i].start + j]
                            = ExpectedInsert(tables[i].name, tables[i].records[j].Row)
            /\ (i = Len(tables) /\ pc \in {"dumpTableRecords", "dumpTableRecords_insert"})
                  => Len(outF) = tables[i].start + Processed(i)

(* The row (2, "o'c") of table q' and the row (1, NULL) of table a have    *)
(* been written.                                                           *)
C7_Witness ==
    /\ IsDump /\ Len(tables) = 2
    /\ tables[1].name = NameQ /\ tables[2].name = NameA
    /\ Len(outF) >= tables[2].start + 1
    /\ outF[tables[1].start + 1] =
          <<"I", "N", "S", "E", "R", "T", " ", "I", "N", "T", "O", " ",
            "'", "q", "'", "'", "'", " ", "V", "A", "L", "U", "E", "S", " ",
            "(", "2", ",", " ", "o", "'", "c", ")", ";">>
    /\ outF[tables[2].start + 1] =
          <<"I", "N", "S", "E", "R", "T", " ", "I", "N", "T", "O", " ",
            "a", " ", "V", "A", "L", "U", "E", "S", " ",
            "(", "1", ",", " ", "N", "U", "L", "L", ")", ";">>

(* C8, as claimed: while the table-name row stream has undelivered rows,   *)
(* no schema or records query has been issued and no CREATE TABLE line     *)
(* written.                                                                *)
C8_EnumerationFirst ==
    (IsDump /\ namesRowCh.q # <<>>)
        => (Len(queries) <= 1 /\ Len(outF) <= 1)

(* C8, amended: the names are received one at a time, each followed by its *)
(* table's whole processing: a table has its schema query and then its     *)
(* records query only after its name was received, the tables before it    *)
(* have had both, and when the next name is about to be received every     *)
(* table so far has had both.                                              *)
C8_OneTableAtATime ==
    IsDump =>
        /\ Len(tables) <= Len(listed) - Len(namesRowCh.q)
        /\ NumQueries("schema") <= Len(tables)
        /\ NumQueries("records") <= NumQueries("schema")
        /\ Len(tables) >= 1 => NumQueries("records") >= Len(tables) - 1
        /\ pc = "dumpTables" => NumQueries("records") = Len(tables)

(* A table is being dumped while a name is still undelivered. *)
C8_Witness ==
    /\ IsDump /\ namesRowCh.q # <<>>
    /\ NumQueries("records") = 1
    /\ Len(outF) >= 3

(* C9: no function ever waits on a nil channel. *)
C9_NilChannelIsFatal == ~BlockedOnNil

(* C10: in PrintStatementResult a row that carries an error or does not    *)
(* format ends the run at once with that error: nothing is received,       *)
(* appended or written after it; and nothing follows the return.           *)
RowFailure(r) == IF r.Err # NilErr THEN r.Err ELSE formatData(r.Row).err

C10_RowErrorAborts ==
    [][IsPrint =>
          /\ pc # "done"
          /\ (pc = "PrintStatementResult_row" /\ RowFailure(rowResult) # NilErr)
                => /\ pc' = "done"
                   /\ err' = RowFailure(rowResult)
                   /\ UNCHANGED <<outF, stmtCh, rowCh, table>>]_vars

(* A row error ended the run: a table was rendered before it, a row was    *)
(* appended before it, and a row is left in the stream behind it.          *)
C10_Witness ==
    /\ IsPrint /\ pc = "done" /\ err = RowError
    /\ outF # <<>>
    /\ table.rows # <<>>
    /\ rowCh.q # <<>>
(* C11, as claimed: for every statement result without column names,       *)
(* PrintStatementResult writes nothing to the sink and returns no error    *)
(* (PrintStatementsResult goes on to the next statement result).           *)
C11_NoColumnsNoOp ==
    [][(IsPrint /\ pc = "PrintStatementResult"
            /\ Len(statementResult.ColumnNames) = 0)
          => (outF' = outF /\ pc' = "PrintStatementsResult_range"
                /\ err' = NilErr)]_vars

(* C11, amended: for every statement result without column names whose     *)
(* RowCh is not nil, PrintStatementResult writes nothing, receives nothing *)
(* from the row stream, builds no table and returns no error; when its     *)
(* RowCh is nil it returns "unable to print statement result", having      *)
(* written nothing.                                                        *)
C11_NoColumnsNoOpUnlessNil ==
    [][(IsPrint /\ pc = "PrintStatementResult"
            /\ Len(statementResult.ColumnNames) = 0)
          => /\ UNCHANGED <<outF, table, rowCh, stmtCh>>
             /\ IF statementResult.RowCh.isNil
                THEN pc' = "done" /\ err' = UnableToPrintStatementResult
                ELSE pc' = "PrintStatementsResult_range" /\ err' = NilErr
                        /\ firstErr' = firstErr]_vars

(* After a table was rendered, a result without columns has been through   *)
(* PrintStatementResult and the sink still holds that one table.           *)
C11_Witness ==
    /\ IsPrint /\ pc = "PrintStatementsResult_range"
    /\ statementResult = StmtOk(<<>>, Chan(<<>>))
    /\ Len(outF) = 1 /\ err = NilErr
(* C12: when the row stream of the table-listing query has no table name   *)
(* to deliver and no error occurs, the sink holds the pragma line and      *)
(* nothing else, the table-listing query is the only query issued, no      *)
(* table is processed, and the dump, once returned, has returned no error. *)
NoTableListed ==
    /\ IsDump /\ pc \in {"dumpTables", "done"}
    /\ ~namesRowCh.isNil /\ listed = <<>> /\ firstErr = NilErr

C12_EmptyDatabase ==
    NoTableListed =>
        /\ outF = <<PragmaLine>>
        /\ queries = <<NamesQuery>>
        /\ tables = <<>>
        /\ pc = "done" => err = NilErr

(* The dump of a database without user tables has returned. *)
C12_Witness ==
    /\ NoTableListed /\ pc = "done" /\ err = NilErr
    /\ outF = <<PragmaLine>>
(* C13: for every struct that has a Valid field whose value is false,      *)
(* formatValue returns the text NULL and no error, whatever the struct's   *)
(* type name, the kind of its payload field and the payload's contents.    *)
InvalidWrapper(v) == v.k = "struct" /\ v.has /\ ~v.valid

C13_InvalidWrapperIsNull ==
    (IsFormat /\ pc = "done" /\ InvalidWrapper(val))
        => (result.s = <<"N", "U", "L", "L">> /\ result.err = NilErr)

(* An invalid NullInt64 whose payload field is missing (unwrapped, it      *)
(* would be an unsupported raw type) has been formatted.                   *)
C13_Witness ==
    /\ IsFormat /\ pc = "done" /\ InvalidWrapper(val)
    /\ val.t = "NullInt64" /\ val.pk = "invalid"
    /\ formatRawTypes(val.pk, val.b, val.n, val.half, val.s).err # NilErr
    /\ result.s = <<"N", "U", "L", "L">>
(* C14: every value outside the five recognized outcomes (the nil value; a *)
(* raw scalar; a struct with a Valid flag that is invalid or a known       *)
(* wrapper; a byte slice; a map whose "base64" entry is a string) makes    *)
(* formatValue return an error and no string, and no call of formatValue   *)
(* fails in any other way than by returning an error.                      *)
Recognized(v) ==
    \/ v.k = "nil"
    \/ v.k \in {"bool", "string"} \cup IntKinds \cup FloatKinds
    \/ v.k = "struct" /\ v.has /\ (~v.valid \/ v.t \in NullTypes \cup {"NullTime"})
    \/ v.k = "slice" /\ v.ek = "uint8"
    \/ v.k = "map" /\ v.mk \in {"string", "iface_string"}

C14_UnsupportedIsFormatError ==
    (IsFormat /\ pc = "done") =>
        /\ ~IsPanic(result.err)
        /\ ~Recognized(val) => (result.err # NilErr /\ result.s = <<>>)
(* C15: for every map whose "base64" entry is a string s: when s is valid  *)
(* unpadded standard base64 (characters of the alphabet only, a length     *)
(* that is not 1 modulo 4) decoding to the bytes b, formatValue returns    *)
(* "0x" followed by one uppercase hex pair per byte of b and no error;     *)
(* otherwise it returns the decode error and no string.                    *)
ValidBase64(s) == (\A i \in 1..Len(s) : IsB64Char(s[i])) /\ Len(s) % 4 # 1
Base64Bytes(s) == DecodeQuanta([i \in 1..Len(s) |-> B64Index(s[i]) - 1])
IsBase64Map(v) == v.k = "map" /\ v.mk \in {"string", "iface_string"}

C15_Base64MapIsBlob ==
    (IsFormat /\ pc = "done" /\ IsBase64Map(val)) =>
        IF ValidBase64(val.s)
        THEN result = Ok(<<"0", "x">> \o HexPairs(Base64Bytes(val.s)))
        ELSE /\ result.s = <<>>
             /\ result.err # NilErr
             /\ result.err[1] = "unable to decode base64 value"
(* C16: while dumpTableRecords runs, every row it has received from the    *)
(* records stream but the last has its INSERT line in the sink: when the   *)
(* next row is about to be received every received row has been written,   *)
(* and in the body of the range at most the one row just received is       *)
(* unwritten.                                                              *)
RowsReceived == Len(tables[Len(tables)].records) - Len(rowCh.q)
RowsWritten == Len(outF) - tables[Len(tables)].start

C16_BackPressure ==
    (IsDump /\ pc \in {"dumpTableRecords", "dumpTableRecords_insert"}) =>
        /\ pc = "dumpTableRecords" => RowsReceived = RowsWritten
        /\ pc = "dumpTableRecords_insert"
              => (RowsWritten <= RowsReceived /\ RowsReceived <= RowsWritten + 1)

(* The first row has been written and the second is about to be received. *)
C16_Witness ==
    /\ IsDump /\ pc = "dumpTableRecords"
    /\ RowsReceived = 1 /\ RowsWritten = 1 /\ rowCh.q # <<>>
(* C17: when a value of a row received by dumpTableRecords does not        *)
(* format, formatData returns no row, and the dump returns the formatting  *)
(* error with the sink as it was before the row was received: neither the  *)
(* receive nor the body of the range writes anything for that row.         *)
FormatFails(r) == r.Err = NilErr /\ formatData(r.Row).err # NilErr

C17_NoPartialWrite ==
    [][IsDump =>
          /\ pc = "dumpTableRecords" => outF' = outF
          /\ (pc = "dumpTableRecords_insert" /\ FormatFails(rowResult))
                => /\ formatData(rowResult.Row).row = <<>>
                   /\ outF' = outF
                   /\ pc' = "done"
                   /\ err' = formatData(rowResult.Row).err]_vars

(* The second row of table a failed to format at its second value: the     *)
(* dump has returned the error and the last line of the sink is the INSERT *)
(* line of the first row.                                                  *)
C17_Witness ==
    /\ IsDump /\ pc = "done" /\ FormatFails(rowResult)
    /\ formatValue(rowResult.Row[1]).err = NilErr
    /\ err = <<"unsupported type", "chan">>
    /\ RowsReceived = 1 /\ RowsWritten = 1
    /\ outF[Len(outF)] = InsertStatement(NameA, formatData(RecordAt(1).Row).row)
(* The table PrintStatementResult renders for a statement result whose     *)
(* rows all format.                                                        *)
TableOf(stmt) ==
    [header |-> IF withoutHeader THEN <<>> ELSE stmt.ColumnNames,
     rows |-> [j \in 1..Len(stmt.RowCh.q) |-> formatData(stmt.RowCh.q[j].Row).row]]

Ended == SelectSeq(printed, LAMBDA x : x.rows = "ended")

(* C18, as claimed: when a statement result is received, the row stream of *)
(* every statement result received before it has been received from to    *)
(* its end or to its first error; at most one row stream is ranged over at *)
(* a time; and the sink holds the tables of the statements in arrival      *)
(* order.                                                                  *)
C18_StreamsInTurn ==
    IsPrint =>
        /\ \A k \in 1..Len(printed) :
              /\ k < Len(printed) => printed[k].rows \in {"ended", "failed"}
              /\ printed[k].rows = "open" => k = Len(printed)
        /\ outF = [k \in 1..Len(Ended) |-> TableOf(Ended[k].stmt)]

(* C18, amended: when a statement result is received, every statement      *)
(* result received before it either has columns and had its row stream     *)
(* received from until it was closed, or has no columns and had its row    *)
(* stream left unread (whatever rows it holds); a statement result whose   *)
(* rows failed, or that was an error itself, is the last one received; at  *)
(* most one row stream is ranged over at a time, that of the statement     *)
(* result received last; and the sink holds the tables of the statement    *)
(* results whose streams ended, in arrival order.                          *)
C18_StreamsInTurnUnlessNoColumns ==
    IsPrint =>
        /\ \A k \in 1..Len(printed) :
              /\ k < Len(printed) => printed[k].rows \in {"ended", "unread"}
              /\ printed[k].rows = "unread"
                    <=> (k < Len(printed) \/ pc # "PrintStatementResult")
                        /\ printed[k].stmt.Err = NilErr
                        /\ ~printed[k].stmt.RowCh.isNil
                        /\ printed[k].stmt.ColumnNames = <<>>
              /\ printed[k].rows = "open"
                    <=> (k = Len(printed)
                         /\ pc \in {"PrintStatementResult_range", "PrintStatementResult_row"})
        /\ pc \in {"PrintStatementResult_range", "PrintStatementResult_row"}
              => (printed # <<>> /\ ~rowCh.isNil)
        /\ outF = [k \in 1..Len(Ended) |-> TableOf(Ended[k].stmt)]

(* A statement result of two rows and then one of one row have been        *)
(* printed: each stream was received from until it closed, and the sink    *)
(* holds the table of two rows and then the table of one.                  *)
C18_Witness ==
    /\ IsPrint /\ pc = "PrintStatementsResult_range" /\ Len(printed) = 2
    /\ printed[1].rows = "ended" /\ Len(printed[1].stmt.RowCh.q) = 2
    /\ printed[2].rows = "ended" /\ Len(printed[2].stmt.RowCh.q) = 1
    /\ Len(outF) = 2 /\ Len(outF[1].rows) = 2 /\ Len(outF[2].rows) = 1
(* C19: PrintStatementResult writes to the sink only when the range over   *)
(* the row stream has ended with the stream closed, and what it writes is  *)
(* the whole table of the statement; so when it returns an error, the sink *)
(* is as it was when the statement result was received: it holds the       *)
(* tables of the statements whose streams ended, and nothing of the rows   *)
(* appended to the table before the error.                                 *)
C19_AllOrNothing ==
    [][IsPrint =>
          /\ outF' # outF
                => /\ pc = "PrintStatementResult_range"
                   /\ pc' = "PrintStatementsResult_range"
                   /\ rowCh.q = <<>>
                   /\ Len(table.rows) = Len(statementResult.RowCh.q)
                   /\ outF' = Append(outF, TableOf(statementResult))
          /\ (pc' = "done" /\ err' # NilErr)
                => /\ outF' = outF
                   /\ Len(outF) = Len(Ended)]_vars

(* The second row of the first statement result carried an error: the run  *)
(* has returned it, the first row is in the table and the sink is empty.   *)
C19_Witness ==
    /\ IsPrint /\ pc = "done" /\ err = RowError
    /\ Len(printed) = 1 /\ printed[1].rows = "failed"
    /\ Len(table.rows) = 1
    /\ outF = <<>>
(* C20: a dump whose collaborator behaves (the command has its db          *)
(* configuration, every query is executed and its statement stream         *)
(* delivers one statement result, an error or one with a row stream that   *)
(* is not nil, and the rows of the schema query have two columns)          *)
(* eventually returns; when it has returned, the queries issued are the    *)
(* table-listing query and then, for each listed table in turn, its schema *)
(* query and its records query (all of them when no error is returned);    *)
(* and it has returned no error exactly when no stream delivered an error  *)
(* and no value failed to format.                                          *)
RecvPcs == {"getDbTableNames_recv", "getTableSchema_recv", "getTableRecords_recv"}

Proper ==
    /\ IsDump /\ configOk
    /\ firstErr # ExecError /\ err # ExecError
    /\ err # NilErr => err[1] # "expected 2 columns, got"
    /\ pc \in RecvPcs
          => /\ Len(stmtCh.q) = 1
             /\ (stmtCh.q[1].Err # NilErr \/ ~stmtCh.q[1].RowCh.isNil)
    /\ pc = "dumpTables" => ~namesRowCh.isNil
    /\ pc \in {"getTableSchema_range", "dumpTableRecords"} => ~rowCh.isNil

QueriesOf(name) ==
    <<SchemaQuery(EscapeSingleQuotes(name)), RecordsQuery(EscapeSingleQuotes(name))>>

ExpectedQueries ==
    <<NamesQuery>> \o Concat([i \in 1..Len(tables) |-> QueriesOf(tables[i].name)])

IsPrefix(s, u) == Len(s) <= Len(u) /\ s = SubSeq(u, 1, Len(s))

Returned ==
    (Proper /\ pc = "done") =>
        /\ IsPrefix(queries, ExpectedQueries)
        /\ \A i \in 1..Len(tables) : tables[i].name = listed[i].Row[1].s
        /\ err = NilErr => (queries = ExpectedQueries /\ Len(tables) = Len(listed))
        /\ err = NilErr <=> firstErr = NilErr

C20_DumpTerminates ==
    /\ []Returned
    /\ <>(pc = "done" \/ ~Proper)
====
